---- MODULE Spec2Model ----
(***************************************************************************)
(* Model of integration-tests/features/environment.py: the behave hooks,   *)
(* the VirtualMachineHelper (local Vagrant VMs torn down through           *)
(* contextlib.ExitStack callbacks), _run_command, the MigrationHelper and  *)
(* MigrationInfo.from_vm_list, and the RequestsHelper (get_response's      *)
(* polling loop, get_responses, compare_redeployed_response).              *)
(* Every operation of the Python code is one action; the backend's exit    *)
(* statuses, the HTTP outcomes and the clock are inputs drawn with \E.     *)
(***************************************************************************)
EXTENDS Naturals, Sequences, FiniteSets, TLC

VARIABLES
    phase,             \* where the behave runner is: new, idle, scenario, finished, aborted
    helpers,           \* the VirtualMachineHelper objects, one per scenario, in creation order
    global_cleanup,    \* context._global_cleanup: indices of helpers whose close is registered
    scenario_cleanup,  \* context.scenario_cleanup: same, for the current scenario
    vm_helper,         \* context.vm_helper: index into helpers (0 before the first scenario)
    vmUp,              \* backend: hostnames whose last command was a successful "up"
    ghost,             \* per helper: its successful ensure_local_vm calls since its last close
    budget,            \* what the run may still do: scenarios to start, VMs to acquire
    last,              \* the last operation: its arguments, outcome and what it ran
    poll,              \* RequestsHelper.get_response in progress (GetResponse, Request, CheckDeadline)
    batch,             \* RequestsHelper.get_responses in progress
    cmp                \* RequestsHelper.compare_redeployed_response in progress

vars == <<phase, helpers, global_cleanup, scenario_cleanup, vm_helper, vmUp,
          ghost, budget, last, poll, batch, cmp>>

----------------------------------------------------------------------------
(* Bounds of the model *)

\* scenarios the runner executes in one run
MaxScenarios == 2
\* successful ensure_local_vm calls over the whole run
MaxCalls == 2
\* the same, in the single scenario that SpecDeep runs
MaxDeepCalls == 3
\* how many executions of one command have a scripted outcome
MaxSpawns == 3
\* most records in a machine listing
MaxMachines == 3
\* most URLs given to one get_responses call
MaxTargets == 2
\* longest wait_for_connection, in clock ticks
MaxWait == 3
\* longest time one requests.get takes, in clock ticks
MaxDuration == 2
\* latest reading of the clock when get_response is called
MaxStart == 2

\* exit statuses of an external command: 0 is success
ExitCodes == {0, 1}

\* directory names under integration-tests/vmdefs
VmDefDirs == {"a", "b"}
\* definitions a step may ask for: the known ones and an unknown one
Definitions == VmDefDirs \cup {"zz"}
\* logical names steps use; one of them happens to spell a hostname
Names == {"src", "dst", "leapp-tests-b"}

----------------------------------------------------------------------------
(* General utilities *)

Reverse(s) == [i \in 1..Len(s) |-> s[Len(s) + 1 - i]]

\* dict.pop(k) on a dict that holds k, and d[k] = v
Pop(m, k) == [x \in (DOMAIN m) \ {k} |-> m[x]]
Put(m, k, v) == [x \in (DOMAIN m) \cup {k} |-> IF x = k THEN v ELSE m[x]]
EmptyDict == [x \in {} |-> ""]

\* _run_command: the exception it leaves with ("ok" for a normal return)
\* and the text it returns, given the command's exit status and stdout.
run_command(rc, stdout, ignore_errors) ==
    IF rc # 0 /\ ~ignore_errors
    THEN [exc |-> "CalledProcessError", output |-> "none"]
    ELSE [exc |-> "ok", output |-> stdout]

\* what the command prints on stdout
Stdouts == {"", "out", "more out"}
\* what the command does each time it is executed: exit status and stdout
Runs == [1..MaxSpawns -> [rc : ExitCodes, stdout : Stdouts]]

\* a runner that executes the command again when it failed
run_command_retry(runs, ignore_errors) ==
    LET n == IF runs[1].rc # 0 /\ Len(runs) > 1 THEN 2 ELSE 1
        r == run_command(runs[n].rc, runs[n].stdout, ignore_errors)
    IN  [exc |-> r.exc, output |-> r.output, spawned |-> n]

\* _run_command on a command that behaves as runs says: the one
\* subprocess.check_output call consumes the first execution
run_command_on(runs, ignore_errors) ==
    LET r == run_command(runs[1].rc, runs[1].stdout, ignore_errors)
    IN  [exc |-> r.exc, output |-> r.output, spawned |-> 1]

----------------------------------------------------------------------------
(* Local VM management *)

VM_HOSTNAME_PREFIX == "leapp-tests-"
Hostname(definition) == VM_HOSTNAME_PREFIX \o definition
\* the keys of _VM_DEFS
VM_DEFS == {Hostname(d) : d \in VmDefDirs}

NewHelper == [machines |-> EmptyDict, resource_manager |-> <<>>]

\* _run_vagrant: looks the directory up, then runs the command
run_vagrant(hostname, rc, ignore_errors) ==
    IF hostname \notin VM_DEFS
    THEN "KeyError"
    ELSE run_command(rc, "", ignore_errors).exc

Cmd(c, hostname, rc) == [cmd |-> c, host |-> hostname, rc |-> rc]

vm_up(machines, name, hostname, rc) ==
    LET e == run_vagrant(hostname, rc, FALSE)
    IN  [machines |-> IF e = "ok" THEN Put(machines, name, hostname) ELSE machines,
         cmds |-> IF hostname \in VM_DEFS THEN <<Cmd("up", hostname, rc)>> ELSE <<>>,
         exc |-> e]

\* _vm_halt reading the name without removing it
vm_halt_keep(machines, name, rc) ==
    IF name \notin DOMAIN machines
    THEN [machines |-> machines, cmds |-> <<>>, exc |-> "KeyError"]
    ELSE LET hostname == machines[name]
         IN  [machines |-> machines,
              cmds |-> <<Cmd("halt", hostname, rc[hostname])>>,
              exc |-> run_vagrant(hostname, rc[hostname], TRUE)]

\* rc maps each hostname to the exit status its halt/destroy command returns
vm_halt(machines, name, rc) ==
    IF name \notin DOMAIN machines
    THEN [machines |-> machines, cmds |-> <<>>, exc |-> "KeyError"]
    ELSE LET hostname == machines[name]
         IN  [machines |-> Pop(machines, name),
              cmds |-> <<Cmd("halt", hostname, rc[hostname])>>,
              exc |-> run_vagrant(hostname, rc[hostname], TRUE)]

vm_destroy(machines, name, rc) ==
    IF name \notin DOMAIN machines
    THEN [machines |-> machines, cmds |-> <<>>, exc |-> "KeyError"]
    ELSE LET hostname == machines[name]
         IN  [machines |-> Pop(machines, name),
              cmds |-> <<Cmd("destroy", hostname, rc[hostname])>>,
              exc |-> run_vagrant(hostname, rc[hostname], TRUE)]

Callback(destroy, name) ==
    [fn |-> IF destroy THEN "_vm_destroy" ELSE "_vm_halt", name |-> name]

\* an ensure_local_vm that looks the definition up after the destroy
ensure_local_vm_late_check(h, name, definition, destroy, rcUp, rc) ==
    LET hostname == Hostname(definition)
        d == IF destroy
             THEN vm_destroy(h.machines, hostname, rc)
             ELSE [machines |-> h.machines, cmds |-> <<>>, exc |-> "ok"]
        u == vm_up(d.machines, name, hostname, rcUp)
    IN  IF d.exc # "ok"
        THEN [helper |-> [h EXCEPT !.machines = d.machines], cmds |-> d.cmds, exc |-> d.exc]
        ELSE IF hostname \notin VM_DEFS
        THEN [helper |-> h, cmds |-> <<>>, exc |-> "ValueError"]
        ELSE IF u.exc # "ok"
        THEN [helper |-> [h EXCEPT !.machines = u.machines],
              cmds |-> d.cmds \o u.cmds, exc |-> u.exc]
        ELSE [helper |-> [machines |-> u.machines,
                          resource_manager |->
                              Append(h.resource_manager, Callback(destroy, name))],
              cmds |-> d.cmds \o u.cmds, exc |-> "ok"]

ensure_local_vm(h, name, definition, destroy, rcUp, rc) ==
    LET hostname == Hostname(definition)
        d == IF destroy
             THEN vm_destroy(h.machines, hostname, rc)
             ELSE [machines |-> h.machines, cmds |-> <<>>, exc |-> "ok"]
        u == vm_up(d.machines, name, hostname, rcUp)
    IN  IF hostname \notin VM_DEFS
        THEN [helper |-> h, cmds |-> <<>>, exc |-> "ValueError"]
        ELSE IF d.exc # "ok"
        THEN [helper |-> [h EXCEPT !.machines = d.machines], cmds |-> d.cmds, exc |-> d.exc]
        ELSE IF u.exc # "ok"
        THEN [helper |-> [h EXCEPT !.machines = u.machines],
              cmds |-> d.cmds \o u.cmds, exc |-> u.exc]
        ELSE [helper |-> [machines |-> u.machines,
                          resource_manager |->
                              Append(h.resource_manager, Callback(destroy, name))],
              cmds |-> d.cmds \o u.cmds, exc |-> "ok"]

\* a helper that starts from the maps of the one before it
VirtualMachineHelperShared(hs) ==
    IF hs = <<>> THEN NewHelper ELSE hs[Len(hs)]

\* VirtualMachineHelper(): a new object, whatever helpers exist
VirtualMachineHelper(hs) == NewHelper

get_hostname(h, name) ==
    IF name \in DOMAIN h.machines
    THEN [exc |-> "ok", ret |-> h.machines[name]]
    ELSE [exc |-> "KeyError", ret |-> "none"]

\* one registered callback, called by the ExitStack
InvokeCallback(machines, cb, rc) ==
    IF cb.fn = "_vm_destroy"
    THEN vm_destroy(machines, cb.name, rc)
    ELSE vm_halt(machines, cb.name, rc)

\* contextlib.ExitStack.close() on the helper's _resource_manager: callbacks
\* are popped from the right end and called; an exception a callback raises
\* is kept pending while the remaining callbacks run, and the one raised last
\* leaves close().
RECURSIVE ExitStackCloseFifo(_, _)
ExitStackCloseFifo(st, rc) ==
    IF st.helper.resource_manager = <<>>
    THEN st
    ELSE LET stack == st.helper.resource_manager
             cb == stack[1]
             r == InvokeCallback(st.helper.machines, cb, rc)
         IN  ExitStackCloseFifo(
                 [helper |-> [machines |-> r.machines,
                              resource_manager |-> SubSeq(stack, 2, Len(stack))],
                  cmds |-> st.cmds \o r.cmds,
                  invoked |-> Append(st.invoked, cb),
                  outcomes |-> Append(st.outcomes, r.exc),
                  exc |-> IF r.exc # "ok" THEN r.exc ELSE st.exc],
                 rc)

RECURSIVE ExitStackCloseAbort(_, _)
ExitStackCloseAbort(st, rc) ==
    IF st.helper.resource_manager = <<>> \/ st.exc # "ok"
    THEN st
    ELSE LET stack == st.helper.resource_manager
             cb == stack[Len(stack)]
             r == InvokeCallback(st.helper.machines, cb, rc)
         IN  ExitStackCloseAbort(
                 [helper |-> [machines |-> r.machines,
                              resource_manager |-> SubSeq(stack, 1, Len(stack) - 1)],
                  cmds |-> st.cmds \o r.cmds,
                  invoked |-> Append(st.invoked, cb),
                  outcomes |-> Append(st.outcomes, r.exc),
                  exc |-> r.exc],
                 rc)

RECURSIVE ExitStackClose(_, _)
ExitStackClose(st, rc) ==
    IF st.helper.resource_manager = <<>>
    THEN st
    ELSE LET stack == st.helper.resource_manager
             cb == stack[Len(stack)]
             r == InvokeCallback(st.helper.machines, cb, rc)
         IN  ExitStackClose(
                 [helper |-> [machines |-> r.machines,
                              resource_manager |-> SubSeq(stack, 1, Len(stack) - 1)],
                  cmds |-> st.cmds \o r.cmds,
                  invoked |-> Append(st.invoked, cb),
                  outcomes |-> Append(st.outcomes, r.exc),
                  exc |-> IF r.exc # "ok" THEN r.exc ELSE st.exc],
                 rc)

\* VirtualMachineHelper.close
close(h, rc) ==
    ExitStackClose([helper |-> h, cmds |-> <<>>, invoked |-> <<>>, outcomes |-> <<>>,
                    exc |-> "ok"], rc)

\* ExitStack.close() on a stack whose callbacks are vm_helper.close of the
\* helpers named by index (context._global_cleanup, context.scenario_cleanup)
RECURSIVE CleanupClose(_, _)
CleanupClose(st, rc) ==
    IF st.stack = <<>>
    THEN st
    ELSE LET i == st.stack[Len(st.stack)]
             r == close(st.helpers[i], rc)
         IN  CleanupClose(
                 [stack |-> SubSeq(st.stack, 1, Len(st.stack) - 1),
                  helpers |-> [st.helpers EXCEPT ![i] = r.helper],
                  closed |-> Append(st.closed, i),
                  cmds |-> st.cmds \o r.cmds,
                  invoked |-> st.invoked \o r.invoked,
                  outcomes |-> st.outcomes \o r.outcomes,
                  exc |-> IF r.exc # "ok" THEN r.exc ELSE st.exc],
                 rc)

cleanup_close(stack, hs, rc) ==
    CleanupClose([stack |-> stack, helpers |-> hs, closed |-> <<>>, cmds |-> <<>>,
                  invoked |-> <<>>, outcomes |-> <<>>, exc |-> "ok"], rc)

----------------------------------------------------------------------------
(* What the backend and the observer record *)

\* the hostnames up after the commands cmds, in order
RECURSIVE Backend(_, _)
Backend(up, cmds) ==
    IF cmds = <<>>
    THEN up
    ELSE LET c == Head(cmds)
         IN  Backend(IF c.cmd = "up"
                     THEN (IF c.rc = 0 THEN up \cup {c.host} ELSE up)
                     ELSE up \ {c.host},
                     Tail(cmds))

\* what the observer keeps of a command: which one, on which hostname
Strip(cmds) == [i \in 1..Len(cmds) |-> [cmd |-> cmds[i].cmd, host |-> cmds[i].host]]

\* Ghost of one helper, kept from the calls made and never read by the code:
\* ensured, the successful ensure_local_vm calls since its last close;
\* lease, the hostname each logical name was last acquired for ("none" once
\* released); closed, whether close ran with no acquisition since.
NoLease == [n \in Names |-> "none"]
NoGhost == [ensured |-> <<>>, lease |-> NoLease, closed |-> FALSE]

GhostClosed(g) == [ensured |-> <<>>, lease |-> NoLease, closed |-> TRUE]

\* destroy=True releases whatever is held under the key it is given (the
\* hostname); a successful call then leases name to hostname.
GhostEnsure(g, name, hostname, destroy, exc) ==
    LET l1 == IF destroy /\ hostname \in Names /\ exc # "ValueError"
              THEN [g.lease EXCEPT ![hostname] = "none"]
              ELSE g.lease
    IN  IF exc = "ok"
        THEN [ensured |-> Append(g.ensured,
                                 [name |-> name, hostname |-> hostname, destroy |-> destroy]),
              lease |-> [l1 EXCEPT ![name] = hostname],
              closed |-> FALSE]
        ELSE [g EXCEPT !.lease = l1]

GhostAfterCleanup(gs, closed) ==
    [i \in DOMAIN gs |->
        IF \E k \in DOMAIN closed : closed[k] = i THEN GhostClosed(gs[i]) ELSE gs[i]]

\* the teardown callbacks the calls in ensured registered, in order
Registered(ensured) ==
    [i \in 1..Len(ensured) |-> Callback(ensured[i].destroy, ensured[i].name)]

NoLast ==
    [op |-> "none", name |-> "", hostname |-> "", destroy |-> FALSE, fresh |-> FALSE,
     exc |-> "ok", ret |-> "none", registered |-> <<>>, invoked |-> <<>>,
     outcomes |-> <<>>, ran |-> <<>>, again |-> FALSE]

Hook(op, r) ==
    [NoLast EXCEPT !.op = op, !.exc = r.exc, !.invoked = r.invoked,
                   !.outcomes = r.outcomes, !.ran = Strip(r.cmds)]

\* the acquisitions, oldest first, that the helpers closed (in this order)
\* still had to tear down
RECURSIVE EnsuredOf(_, _)
EnsuredOf(gs, closed) ==
    IF closed = <<>> THEN <<>>
    ELSE EnsuredOf(gs, Tail(closed)) \o gs[Head(closed)].ensured

\* an exit status is chosen only for the hostnames that are sent a command
Untouched(rc, cmds) ==
    \A x \in VM_DEFS : (\A i \in DOMAIN cmds : cmds[i].host # x) => rc[x] = 0

----------------------------------------------------------------------------
(* Leapp commands: MigrationInfo.from_vm_list *)

\* a record of the listing: its hostname and its list of addresses
Hosts == {"h1", "h2", "h3"}
IpLists == {<<>>, <<"1.1.1.1">>, <<"2.2.2.2", "1.1.1.1">>}
Machines == [hostname : Hosts, ip : IpLists]
Listings == UNION {[1..n -> Machines] : n \in 0..MaxMachines}

MigrationInfo(local_vm_count, source_ip, target_ip) ==
    [exc |-> "ok", local_vm_count |-> local_vm_count, source_ip |-> source_ip,
     target_ip |-> target_ip]
Raised(exc) ==
    [exc |-> exc, local_vm_count |-> 0, source_ip |-> "None", target_ip |-> "None"]

\* the for loop from record i on; stop says when the loop breaks:
\* "both" (as the code does), "either", or "never"
RECURSIVE ScanVms(_, _, _, _, _, _, _)
ScanVms(machines, i, source_ip, target_ip, source_host, target_host, stop) ==
    IF i > Len(machines)
    THEN MigrationInfo(Len(machines), source_ip, target_ip)
    ELSE LET machine == machines[i]
             isSource == machine.hostname = source_host
             isTarget == machine.hostname = target_host
         IN  IF (isSource \/ isTarget) /\ machine.ip = <<>>
             THEN Raised("IndexError")
             ELSE LET s == IF isSource THEN machine.ip[1] ELSE source_ip
                      t == IF isTarget THEN machine.ip[1] ELSE target_ip
                      break == CASE stop = "both" -> s # "None" /\ t # "None"
                                 [] stop = "either" -> s # "None" \/ t # "None"
                                 [] OTHER -> FALSE
                  IN  IF break
                      THEN MigrationInfo(Len(machines), s, t)
                      ELSE ScanVms(machines, i + 1, s, t, source_host, target_host, stop)

\* a scan that stops as soon as one of the two hosts is found
from_vm_list_either(machines, source_host, target_host) ==
    ScanVms(machines, 1, "None", "None", source_host, target_host, "either")

from_vm_list(machines, source_host, target_host) ==
    ScanVms(machines, 1, "None", "None", source_host, target_host, "both")

----------------------------------------------------------------------------
(* Leapp commands: MigrationHelper *)

\* what leapp-tool prints, by what json.loads makes of it: text that is not
\* JSON, an object without "machines", or an object with a machine listing
NotJson == [kind |-> "garbage", keys |-> {}, machines |-> <<>>]
NoMachinesKey == [kind |-> "object", keys |-> {}, machines |-> <<>>]
MachinesJson(machines) == [kind |-> "object", keys |-> {"machines"}, machines |-> machines]
LeappListings ==
    {<<>>,
     <<[hostname |-> "leapp-tests-a", ip |-> <<"1.1.1.1">>],
       [hostname |-> "leapp-tests-b", ip |-> <<"2.2.2.2">>]>>,
     <<[hostname |-> "leapp-tests-b", ip |-> <<>>]>>}
LeappOutputs == {NotJson, NoMachinesKey} \cup {MachinesJson(m) : m \in LeappListings}

\* json.loads(leapp_output)["machines"]
json_loads_machines(leapp_output) ==
    IF leapp_output.kind = "garbage"
    THEN [exc |-> "JSONDecodeError", machines |-> <<>>]
    ELSE IF "machines" \notin leapp_output.keys
    THEN [exc |-> "KeyError", machines |-> <<>>]
    ELSE [exc |-> "ok", machines |-> leapp_output.machines]

\* a _run_leapp that ignores the exit status
run_leapp_ignoring(rc, stdout) == run_command(rc, stdout, TRUE)

\* _run_leapp: _run_command(cmd, work_dir=..., ignore_errors=False)
run_leapp(rc, stdout) == run_command(rc, stdout, FALSE)

LeappCmd(cmd, args) == [cmd |-> cmd, args |-> args]
NoInfo == Raised("none")

\* redeploy_as_macrocontainer on helper h, given the exit status of
\* migrate-machine and the exit status and output of list-machines
redeploy_as_macrocontainer(h, source_vm, target_vm, rcMigrate, rcList, stdout) ==
    LET source_host == get_hostname(h, source_vm)
        target_host == get_hostname(h, target_vm)
        migrate == LeappCmd("migrate-machine", <<"-t", target_host.ret, source_host.ret>>)
        list == LeappCmd("list-machines", <<"--shallow">>)
        convert == run_leapp(rcMigrate, "")
        leapp_output == run_leapp(rcList, stdout)
        parsed == json_loads_machines(leapp_output.output)
        info == from_vm_list(parsed.machines, source_host.ret, target_host.ret)
    IN  IF source_host.exc # "ok"
        THEN [exc |-> source_host.exc, ran |-> <<>>, info |-> NoInfo]
        ELSE IF target_host.exc # "ok"
        THEN [exc |-> target_host.exc, ran |-> <<>>, info |-> NoInfo]
        ELSE IF convert.exc # "ok"
        THEN [exc |-> convert.exc, ran |-> <<migrate>>, info |-> NoInfo]
        ELSE IF leapp_output.exc # "ok"
        THEN [exc |-> leapp_output.exc, ran |-> <<migrate, list>>, info |-> NoInfo]
        ELSE IF parsed.exc # "ok"
        THEN [exc |-> parsed.exc, ran |-> <<migrate, list>>, info |-> NoInfo]
        ELSE IF info.exc # "ok"
        THEN [exc |-> info.exc, ran |-> <<migrate, list>>, info |-> NoInfo]
        ELSE [exc |-> "ok", ran |-> <<migrate, list>>, info |-> info]

----------------------------------------------------------------------------
(* Service status checking: RequestsHelper.get_response *)

\* wait_for_connection: None, or a number of seconds
NoWait == [present |-> FALSE, seconds |-> 0]
Seconds(n) == [present |-> TRUE, seconds |-> n]
Waits == {NoWait} \cup {Seconds(n) : n \in 0..MaxWait}

\* the message of the AssertionError
FailMsg(wait) ==
    IF wait.present
    THEN [text |-> "No response from service within {} seconds", seconds |-> wait.seconds]
    ELSE [text |-> "No response from service", seconds |-> 0]

NoResult == [text |-> "", seconds |-> 0]
Response == [text |-> "response", seconds |-> 0]

\* "http://{}:{}".format(ip, tcp_port)
Url(ip, tcp_port) == "http://" \o ip \o ":" \o tcp_port
Ips == {"10.0.0.1", "10.0.0.2"}
Ports == {"80"}
Urls == {Url(ip, port) : ip \in Ips, port \in Ports}

\* what a requests.Response carries: status_code and text
Statuses == {"200", "500"}
Bodies == {"x", "y"}
Responses == [status_code : Statuses, text : Bodies]
NoResponse == [status_code |-> "", text |-> ""]

\* a deadline that forgets the wait
DeadlineAtStart(start, wait) == start

\* a deadline that waits even when no wait was asked for
DeadlineDefaultWait(start, wait) ==
    start + (IF wait.present THEN wait.seconds ELSE MaxWait)

\* deadline = time.monotonic(), plus the wait when there is one
Deadline(start, wait) ==
    IF wait.present THEN start + wait.seconds ELSE start

\* the test that ends the loop
DeadlinePassed(now, deadline) == now >= deadline

\* pc: none (no call), request (about to call requests.get), check (the
\* exception was swallowed; about to test the clock just read), returned, raised.
\* now is the monotonic clock as the code last read it; service tells whether
\* the polled service can ever answer.
NoPoll ==
    [pc |-> "none", wait |-> NoWait, service |-> "never", start |-> 0, deadline |-> 0,
     fail_msg |-> NoResult, now |-> 0, attempts |-> 0, got |-> "nothing",
     result |-> NoResult, url |-> "", response |-> NoResponse]

\* get_response up to its loop, called at clock reading start
get_response(service_url, wait, start, service) ==
    [NoPoll EXCEPT !.pc = "request", !.url = service_url, !.wait = wait,
                   !.service = service, !.start = start, !.now = start,
                   !.deadline = Deadline(start, wait), !.fail_msg = FailMsg(wait)]

----------------------------------------------------------------------------
(* Test execution hooks and the steps' calls *)

----------------------------------------------------------------------------
(* Service status checking: RequestsHelper.get_responses *)

\* an element of urls_to_check: a string, or a (service_url, wait) tuple
Bare(url) == [url |-> url, tuple |-> FALSE, wait |-> NoWait]
Pair(url, wait) == [url |-> url, tuple |-> TRUE, wait |-> wait]
Targets ==
    {Bare(u) : u \in Urls} \cup {Pair(u, w) : u \in Urls, w \in {NoWait, Seconds(MaxWait)}}
TargetLists == UNION {[1..n -> Targets] : n \in 0..MaxTargets}

\* the isinstance test: the wait of a tuple, None for a string
WaitOf(url_to_check) ==
    IF url_to_check.tuple THEN url_to_check.wait ELSE NoWait

EmptyResponses == [u \in {} |-> NoResponse]

\* pc: none (no call), loop (at the head of the for loop), calling (inside
\* get_response for urls_to_check[i]), returned, raised. log is the
\* get_response calls that have ended.
NoBatch ==
    [pc |-> "none", urls_to_check |-> <<>>, i |-> 0, responses |-> EmptyResponses,
     exc |-> NoResult, log |-> <<>>]

Ended(p) ==
    [url |-> p.url, wait |-> p.wait, pc |-> p.pc, response |-> p.response]

\* a loop that notes a failure and carries on with the next URL
get_responses_collect(b, p) ==
    LET done == b.i >= Len(b.urls_to_check)
        b1 == [b EXCEPT !.log = Append(@, Ended(p)), !.i = @ + 1]
    IN  IF p.pc = "raised"
        THEN [b1 EXCEPT !.exc = p.result, !.pc = IF done THEN "raised" ELSE "loop"]
        ELSE [b1 EXCEPT !.responses = Put(@, p.url, p.response),
                        !.pc = IF done THEN (IF b.exc = NoResult THEN "returned" ELSE "raised")
                               ELSE "loop"]

\* get_response comes back into the loop: its AssertionError leaves
\* get_responses, its response is stored under the URL and the loop goes
\* on, to the return when that was the last URL
get_responses(b, p) ==
    LET b1 == [b EXCEPT !.log = Append(@, Ended(p))]
    IN  IF p.pc = "raised"
        THEN [b1 EXCEPT !.pc = "raised", !.exc = p.result]
        ELSE [b1 EXCEPT !.responses = Put(@, p.url, p.response),
                        !.i = @ + 1,
                        !.pc = IF b.i >= Len(b.urls_to_check) THEN "returned" ELSE "loop"]

----------------------------------------------------------------------------
(* Service status checking: RequestsHelper.compare_redeployed_response *)

\* the AssertionError of a failed assert_that, by its reason
Mismatch(reason) == [text |-> reason, seconds |-> 0]

\* pc: none (no call), original (inside get_response for the original URL),
\* redeployed (inside get_response for the redeployed URL), returned, raised.
\* fetched is the URLs get_response was called for; failed names the check
\* that raised.
NoCmp ==
    [pc |-> "none", original_ip |-> "", redeployed_ip |-> "", tcp_port |-> "",
     status |-> "", wait_for_target |-> NoWait, original_response |-> NoResponse,
     redeployed_response |-> NoResponse, fetched |-> <<>>, failed |-> "none",
     exc |-> NoResult]

\* a check of the original status that accepts any status
original_status_any(original_status, status) == TRUE

\* assert_that(original_status, equal_to(status), "Original status")
original_status_ok(original_status, status) == original_status = status

\* the comparison with the text compared first
compare_responses_text_first(original_response, redeployed_response) ==
    IF redeployed_response.text # original_response.text THEN "Same response"
    ELSE IF redeployed_response.status_code # original_response.status_code
    THEN "Redeployed status"
    ELSE "ok"

\* the last two assert_that: the reason of the one that fails
compare_responses(original_response, redeployed_response) ==
    IF redeployed_response.status_code # original_response.status_code
    THEN "Redeployed status"
    ELSE IF redeployed_response.text # original_response.text THEN "Same response"
    ELSE "ok"

\* the state when behave starts, given what the run may do
InitWith(b) ==
    /\ phase = "new"
    /\ helpers = <<>>
    /\ global_cleanup = <<>>
    /\ scenario_cleanup = <<>>
    /\ vm_helper = 0
    /\ vmUp = {}
    /\ ghost = <<>>
    /\ budget = b
    /\ last = NoLast
    /\ poll = NoPoll
    /\ batch = NoBatch
    /\ cmp = NoCmp

Init == InitWith([scenarios |-> MaxScenarios, calls |-> MaxCalls])

\* before_all: the sudo check, then the global ExitStack
BeforeAll ==
    /\ phase = "new"
    /\ \E rc \in ExitCodes :
          /\ phase' = IF rc = 0 THEN "idle" ELSE "aborted"
          /\ last' = [NoLast EXCEPT !.op = "before_all",
                                    !.exc = IF rc = 0 THEN "ok" ELSE "CalledProcessError"]
    /\ global_cleanup' = <<>>
    /\ UNCHANGED <<helpers, scenario_cleanup, vm_helper, vmUp, ghost,
                   budget, poll, batch, cmp>>

BeforeScenario ==
    /\ phase = "idle"
    /\ budget.scenarios > 0
    /\ budget' = [budget EXCEPT !.scenarios = @ - 1]
    /\ phase' = "scenario"
    /\ scenario_cleanup' = <<>>
    /\ helpers' = Append(helpers, VirtualMachineHelper(helpers))
    /\ vm_helper' = Len(helpers) + 1
    /\ global_cleanup' = Append(global_cleanup, Len(helpers) + 1)
    /\ ghost' = Append(ghost, NoGhost)
    /\ last' = [NoLast EXCEPT !.op = "before_scenario"]
    /\ UNCHANGED <<vmUp, poll, batch, cmp>>

\* a step calls context.vm_helper.ensure_local_vm(name, definition, destroy)
EnsureLocalVm ==
    /\ phase = "scenario"
    /\ \E name \in Names, definition \in Definitions, destroy \in BOOLEAN,
          rcUp \in ExitCodes, rcDestroy \in ExitCodes :
          LET h == helpers[vm_helper]
              hostname == Hostname(definition)
              r == ensure_local_vm(h, name, definition, destroy, rcUp,
                                   [x \in VM_DEFS |-> rcDestroy])
          IN  /\ r.exc = "ok" => budget.calls > 0
              /\ (\A i \in DOMAIN r.cmds : r.cmds[i].cmd # "destroy") => rcDestroy = 0
              /\ (\A i \in DOMAIN r.cmds : r.cmds[i].cmd # "up") => rcUp = 0
              /\ helpers' = [helpers EXCEPT ![vm_helper] = r.helper]
              /\ vmUp' = Backend(vmUp, r.cmds)
              /\ budget' = IF r.exc = "ok" THEN [budget EXCEPT !.calls = @ - 1] ELSE budget
              /\ ghost' = [ghost EXCEPT ![vm_helper] =
                              GhostEnsure(ghost[vm_helper], name, hostname, destroy, r.exc)]
              /\ last' = [NoLast EXCEPT !.op = "ensure_local_vm", !.hostname = hostname,
                                        !.destroy = destroy,
                                        !.fresh = /\ hostname \notin vmUp
                                                  /\ \A n \in DOMAIN h.machines :
                                                        h.machines[n] # hostname,
                                        !.exc = r.exc, !.ran = Strip(r.cmds)]
    /\ UNCHANGED <<phase, global_cleanup, scenario_cleanup, vm_helper, poll, batch, cmp>>

\* a step calls context.vm_helper.get_hostname(name)
GetHostname ==
    /\ phase = "scenario"
    /\ \E name \in Names :
          LET r == get_hostname(helpers[vm_helper], name)
          IN  last' = [NoLast EXCEPT !.op = "get_hostname", !.name = name,
                                     !.exc = r.exc, !.ret = r.ret]
    /\ UNCHANGED <<phase, helpers, global_cleanup, scenario_cleanup, vm_helper, vmUp,
                   ghost, budget, poll, batch, cmp>>

\* a step calls context.vm_helper.close()
Close ==
    /\ phase = "scenario"
    /\ \E rc \in [VM_DEFS -> ExitCodes] :
          LET r == close(helpers[vm_helper], rc)
              g == ghost[vm_helper]
          IN  /\ Untouched(rc, r.cmds)
              /\ helpers' = [helpers EXCEPT ![vm_helper] = r.helper]
              /\ vmUp' = Backend(vmUp, r.cmds)
              /\ ghost' = [ghost EXCEPT ![vm_helper] = GhostClosed(g)]
              /\ last' = [Hook("close", r) EXCEPT !.registered = g.ensured,
                                                   !.again = g.closed]
    /\ UNCHANGED <<phase, global_cleanup, scenario_cleanup, vm_helper, budget,
                   poll, batch, cmp>>

\* a step opts in to eager cleanup, once in a scenario:
\* context.scenario_cleanup.callback(context.vm_helper.close)
RegisterEagerCleanup ==
    /\ phase = "scenario"
    /\ scenario_cleanup = <<>>
    /\ scenario_cleanup' = Append(scenario_cleanup, vm_helper)
    /\ last' = [NoLast EXCEPT !.op = "register_eager_cleanup"]
    /\ UNCHANGED <<phase, helpers, global_cleanup, vm_helper, vmUp, ghost, budget, poll, batch, cmp>>

AfterScenario ==
    /\ phase = "scenario"
    /\ \E rc \in [VM_DEFS -> ExitCodes] :
          LET r == cleanup_close(scenario_cleanup, helpers, rc)
          IN  /\ Untouched(rc, r.cmds)
              /\ helpers' = r.helpers
              /\ scenario_cleanup' = r.stack
              /\ vmUp' = Backend(vmUp, r.cmds)
              /\ ghost' = GhostAfterCleanup(ghost, r.closed)
              /\ last' = [Hook("after_scenario", r)
                              EXCEPT !.registered = EnsuredOf(ghost, r.closed)]
    /\ phase' = "idle"
    /\ UNCHANGED <<global_cleanup, vm_helper, budget, poll, batch, cmp>>

AfterAll ==
    /\ phase = "idle"
    /\ \E rc \in [VM_DEFS -> ExitCodes] :
          LET r == cleanup_close(global_cleanup, helpers, rc)
          IN  /\ Untouched(rc, r.cmds)
              /\ helpers' = r.helpers
              /\ global_cleanup' = r.stack
              /\ vmUp' = Backend(vmUp, r.cmds)
              /\ ghost' = GhostAfterCleanup(ghost, r.closed)
              /\ last' = [Hook("after_all", r)
                              EXCEPT !.registered = EnsuredOf(ghost, r.closed)]
    /\ phase' = "finished"
    /\ UNCHANGED <<scenario_cleanup, vm_helper, budget, poll, batch, cmp>>

Next ==
    \/ BeforeAll
    \/ BeforeScenario
    \/ EnsureLocalVm
    \/ GetHostname
    \/ Close
    \/ RegisterEagerCleanup
    \/ AfterScenario
    \/ AfterAll

Spec == Init /\ [][Next]_vars

vmVars == <<phase, helpers, global_cleanup, scenario_cleanup, vm_helper, vmUp, ghost,
            budget, last>>

\* a step calls get_response(service_url, wait_for_connection): the lines up
\* to the loop. The clock starts anywhere; the service either can answer at
\* some attempt or never does.
GetResponse ==
    /\ poll.pc = "none"
    /\ \E wait \in Waits, start \in 0..MaxStart, service \in {"never", "flaky"} :
          poll' = get_response(Url("10.0.0.1", "80"), wait, start, service)
    /\ UNCHANGED <<vmVars, batch, cmp>>

\* one requests.get: it takes d ticks up to the next reading of the clock, and
\* either returns a response, which get_response returns, or raises, which
\* the loop swallows
Request ==
    /\ poll.pc = "request"
    /\ \E d \in 1..MaxDuration, outcome \in {"response", "exception"},
          response \in Responses \cup {NoResponse} :
          /\ poll.service = "never" => outcome = "exception"
          /\ (outcome = "response") <=> (response \in Responses)
          /\ poll' = [poll EXCEPT !.now = @ + d, !.attempts = @ + 1, !.got = outcome,
                                  !.pc = IF outcome = "response" THEN "returned" ELSE "check",
                                  !.result = IF outcome = "response" THEN Response ELSE @,
                                  !.response = response]
    /\ UNCHANGED <<vmVars, batch, cmp>>

\* if time.monotonic() >= deadline: break, and the raise after the loop
CheckDeadline ==
    /\ poll.pc = "check"
    /\ poll' = IF DeadlinePassed(poll.now, poll.deadline)
               THEN [poll EXCEPT !.pc = "raised", !.result = poll.fail_msg]
               ELSE [poll EXCEPT !.pc = "request"]
    /\ UNCHANGED <<vmVars, batch, cmp>>

\* a step calls get_responses(urls_to_check)
GetResponses ==
    /\ batch.pc = "none"
    /\ poll.pc = "none"
    /\ \E urls_to_check \in TargetLists :
          batch' = [NoBatch EXCEPT !.urls_to_check = urls_to_check, !.i = 1,
                                   !.pc = IF urls_to_check = <<>> THEN "returned" ELSE "loop"]
    /\ UNCHANGED <<vmVars, poll, cmp>>

\* the loop body up to the call of get_response; the clock is read from
\* the entry of that call on
GetResponsesCall ==
    /\ batch.pc = "loop"
    /\ \E service \in {"never", "flaky"} :
          LET url_to_check == batch.urls_to_check[batch.i]
          IN  poll' = get_response(url_to_check.url, WaitOf(url_to_check), 0, service)
    /\ batch' = [batch EXCEPT !.pc = "calling"]
    /\ UNCHANGED <<vmVars, cmp>>

\* get_response has ended
GetResponsesResume ==
    /\ batch.pc = "calling"
    /\ poll.pc \in {"returned", "raised"}
    /\ batch' = get_responses(batch, poll)
    /\ poll' = NoPoll
    /\ UNCHANGED <<vmVars, cmp>>

\* a step calls compare_redeployed_response(original_ip, redeployed_ip,
\* tcp_port=..., status=..., wait_for_target=...): up to the first get_response
CompareRedeployedResponse ==
    /\ cmp.pc = "none"
    /\ poll.pc = "none"
    /\ \E original_ip \in Ips, redeployed_ip \in Ips, tcp_port \in Ports,
          status \in Statuses, wait_for_target \in Waits, service \in {"never", "flaky"} :
          LET original_url == Url(original_ip, tcp_port)
          IN  /\ cmp' = [NoCmp EXCEPT !.pc = "original", !.original_ip = original_ip,
                                      !.redeployed_ip = redeployed_ip,
                                      !.tcp_port = tcp_port, !.status = status,
                                      !.wait_for_target = wait_for_target,
                                      !.fetched = <<original_url>>]
              /\ poll' = get_response(original_url, NoWait, 0, service)
    /\ UNCHANGED <<vmVars, batch>>

\* the original's get_response has ended: its failure leaves the call, its
\* status is asserted, and get_response is called for the redeployed URL
CompareOriginal ==
    /\ cmp.pc = "original"
    /\ poll.pc \in {"returned", "raised"}
    /\ \E service \in {"never", "flaky"} :
          LET redeployed_url == Url(cmp.redeployed_ip, cmp.tcp_port)
              seen == [cmp EXCEPT !.original_response = poll.response]
          IN  IF poll.pc = "raised"
              THEN /\ service = "never"
                   /\ cmp' = [cmp EXCEPT !.pc = "raised", !.failed = "original_response",
                                         !.exc = poll.result]
                   /\ poll' = NoPoll
              ELSE IF ~original_status_ok(poll.response.status_code, cmp.status)
              THEN /\ service = "never"
                   /\ cmp' = [seen EXCEPT !.pc = "raised", !.failed = "Original status",
                                          !.exc = Mismatch("Original status")]
                   /\ poll' = NoPoll
              ELSE /\ cmp' = [seen EXCEPT !.pc = "redeployed",
                                          !.fetched = Append(@, redeployed_url)]
                   /\ poll' = get_response(redeployed_url, cmp.wait_for_target, 0, service)
    /\ UNCHANGED <<vmVars, batch>>

\* the redeployed get_response has ended: its failure leaves the call,
\* otherwise status and text are compared with the original's
CompareRedeployed ==
    /\ cmp.pc = "redeployed"
    /\ poll.pc \in {"returned", "raised"}
    /\ cmp' = IF poll.pc = "raised"
              THEN [cmp EXCEPT !.pc = "raised", !.failed = "redeployed_response",
                               !.exc = poll.result]
              ELSE LET reason == compare_responses(cmp.original_response, poll.response)
                       seen == [cmp EXCEPT !.redeployed_response = poll.response]
                   IN  IF reason = "ok"
                       THEN [seen EXCEPT !.pc = "returned"]
                       ELSE [seen EXCEPT !.pc = "raised", !.failed = reason,
                                         !.exc = Mismatch(reason)]
    /\ poll' = NoPoll
    /\ UNCHANGED <<vmVars, batch>>

\* MigrationInfo.from_vm_list(machines, source_host, target_host)
FromVmList ==
    /\ last = NoLast
    /\ \E machines \in Listings, source_host \in Hosts, target_host \in Hosts :
          last' = [op |-> "from_vm_list", machines |-> machines,
                   source_host |-> source_host, target_host |-> target_host,
                   result |-> from_vm_list(machines, source_host, target_host)]
    /\ UNCHANGED <<phase, helpers, global_cleanup, scenario_cleanup, vm_helper, vmUp,
                   ghost, budget, poll, batch, cmp>>

FromVmListSpec == Init /\ [][FromVmList]_vars

\* a step calls context.migration_helper.redeploy_as_macrocontainer(
\* source_vm, target_vm); an exit status and an output are chosen only for
\* the commands that are run
RedeployAsMacrocontainer ==
    /\ phase = "scenario"
    /\ \E source_vm \in Names, target_vm \in Names, rcMigrate \in ExitCodes,
          rcList \in ExitCodes, stdout \in LeappOutputs :
          LET r == redeploy_as_macrocontainer(helpers[vm_helper], source_vm, target_vm,
                                              rcMigrate, rcList, stdout)
          IN  /\ Len(r.ran) < 1 => rcMigrate = 0
              /\ Len(r.ran) < 2 => (rcList = 0 /\ stdout = NotJson)
              /\ rcList # 0 => stdout = NotJson
              /\ last' = [op |-> "redeploy_as_macrocontainer", source_vm |-> source_vm,
                          target_vm |-> target_vm, rcMigrate |-> rcMigrate,
                          rcList |-> rcList, stdout |-> stdout, exc |-> r.exc,
                          ran |-> r.ran, info |-> r.info]
    /\ UNCHANGED <<phase, helpers, global_cleanup, scenario_cleanup, vm_helper, vmUp,
                   ghost, budget, poll, batch, cmp>>

MigrationNext ==
    \/ BeforeAll
    \/ BeforeScenario
    \/ EnsureLocalVm
    \/ RedeployAsMacrocontainer

\* _run_command(cmd, work_dir, ignore_errors)
RunCommand ==
    /\ last = NoLast
    /\ \E runs \in Runs, ignore_errors \in BOOLEAN :
          last' = [op |-> "_run_command", runs |-> runs, ignore_errors |-> ignore_errors,
                   result |-> run_command_on(runs, ignore_errors)]
    /\ UNCHANGED <<phase, helpers, global_cleanup, scenario_cleanup, vm_helper, vmUp,
                   ghost, budget, poll, batch, cmp>>

RunCommandSpec == Init /\ [][RunCommand]_vars

CompareNext ==
    \/ CompareRedeployedResponse
    \/ Request
    \/ CheckDeadline
    \/ CompareOriginal
    \/ CompareRedeployed

CompareSpec == Init /\ [][CompareNext]_vars

BatchNext ==
    \/ GetResponses
    \/ GetResponsesCall
    \/ Request
    \/ CheckDeadline
    \/ GetResponsesResume

BatchSpec == Init /\ [][BatchNext]_vars

PollNext ==
    \/ GetResponse
    \/ Request
    \/ CheckDeadline

PollSpec == Init /\ [][PollNext]_vars

\* the interpreter keeps running the call it is in
PollFairSpec == PollSpec /\ WF_vars(PollNext)

\* the run of a single scenario: one VirtualMachineHelper, one registry
InitOne == InitWith([scenarios |-> 1, calls |-> MaxCalls])

SpecOne == InitOne /\ [][Next]_vars

\* the migration steps of one scenario
MigrationSpec == InitOne /\ [][MigrationNext]_vars

\* the run of a single scenario that acquires more VMs
InitDeep == InitWith([scenarios |-> 1, calls |-> MaxDeepCalls])

SpecDeep == InitDeep /\ [][Next]_vars

----------------------------------------------------------------------------
(* Properties of the VM helper and the hooks *)

Count(seq, x) == Cardinality({i \in DOMAIN seq : seq[i] = x})

\* the hostnames a close of helper h would send a halt or destroy to
TeardownTargets(h) ==
    LET r == close(h, [x \in VM_DEFS |-> 0])
    IN  {r.cmds[i].host : i \in DOMAIN r.cmds}

\* C1: close() calls the teardown callbacks of the N successful
\* ensure_local_vm calls in the reverse of the order they were registered in,
\* and a close() issued again afterwards calls none and runs no command.
C1_CloseUnwindsInReverse ==
    last.op = "close" =>
        /\ last.invoked = Reverse(Registered(last.registered))
        /\ last.again => (last.invoked = <<>> /\ last.ran = <<>>)

C1_Witness ==
    /\ last.op = "close"
    /\ Len(last.registered) >= 2
    /\ last.invoked[1] # last.invoked[2]

\* C2: once after_all has completed, no hostname that was brought up is left
\* without a later halt or destroy command.
C2_NoVmLeftRunning ==
    phase = "finished" => vmUp = {}

\* C3: when after_scenario has completed in a scenario that acquired "src"
\* with destroy=False and "dst" with destroy=True, src's hostname was sent
\* exactly one halt and dst's hostname exactly one destroy.
C3_TornDownAtScenarioEnd ==
    LET acq == last.registered \o ghost[vm_helper].ensured
    IN  last.op = "after_scenario" =>
            \A i, j \in DOMAIN acq :
                (/\ acq[i].name = "src" /\ ~acq[i].destroy
                 /\ acq[j].name = "dst" /\ acq[j].destroy)
                => /\ Count(last.ran, [cmd |-> "halt", host |-> acq[i].hostname]) = 1
                   /\ Count(last.ran, [cmd |-> "destroy", host |-> acq[j].hostname]) = 1

\* C4: ensure_local_vm with destroy=True for a hostname that no VM exists for
\* (not up, and held under no name of the registry) does not fail on the
\* preliminary destroy.
C4_DestroyOfNonexistentTolerated ==
    (/\ last.op = "ensure_local_vm"
     /\ last.destroy
     /\ last.fresh
     /\ last.hostname \in VM_DEFS)
    => last.exc # "KeyError"

\* C5: a close() in which a teardown callback raised has still called every
\* registered callback, each once, and left the stack empty.
C5_UnwindContinuesPastFailure ==
    (last.op = "close" /\ last.exc # "ok") =>
        /\ Len(last.outcomes) = Len(last.registered)
        /\ \A i \in DOMAIN last.registered :
               Count(last.invoked, Registered(last.registered)[i])
                   = Count(Registered(last.registered), Registered(last.registered)[i])
        /\ helpers[vm_helper].resource_manager = <<>>

C5_Witness ==
    /\ last.op = "close"
    /\ \E i, j \in DOMAIN last.outcomes :
          i < j /\ last.outcomes[i] # "ok" /\ last.outcomes[j] = "ok"
    /\ last.ran # <<>>

\* C6: close(), and the hooks that call it, return normally: no error of a
\* halt or destroy teardown callback leaves them.
C6_TeardownNeverRaises ==
    last.op \in {"close", "after_scenario", "after_all"} => last.exc = "ok"

\* C7: every hostname that is up has a registered teardown callback that will
\* send it a halt or a destroy.
C7_UpImpliesTeardownRegistered ==
    \A x \in vmUp : \E i \in DOMAIN helpers : x \in TeardownTargets(helpers[i])

\* C8: while a name stays acquired in a registry, no operation changes the
\* hostname get_hostname returns for it (a destroy=True call releases the key
\* it is given before it acquires).
C8_NameKeepsItsHostname ==
    [][(vm_helper > 0 /\ vm_helper' = vm_helper) =>
          \A n \in Names :
              LET before == get_hostname(helpers[vm_helper], n)
                  after == get_hostname(helpers'[vm_helper], n)
              IN  (before.exc = "ok" /\ after.exc = "ok")
                  => \/ after.ret = before.ret
                     \/ (last'.op = "ensure_local_vm" /\ last'.destroy
                         /\ last'.hostname = n)]_vars

----------------------------------------------------------------------------
(* Properties of get_response *)

\* C10: with a wait T, a failed attempt whose clock reading is before
\* start + T is followed by another attempt; a response obtained is returned;
\* the failure raised is the within-T one and is raised only at or after
\* start + T; and against a service that never responds the call ends raised.
C10_PollsUntilDeadline ==
    /\ [](poll.wait.present =>
            /\ poll.got = "response" => (poll.pc = "returned" /\ poll.result = Response)
            /\ poll.pc = "raised" =>
                   /\ poll.now >= poll.start + poll.wait.seconds
                   /\ poll.result = FailMsg(poll.wait)
                   /\ poll.got = "exception")
    /\ [][(/\ poll.wait.present
           /\ poll.pc = "check"
           /\ poll.now < poll.start + poll.wait.seconds)
          => (poll'.pc = "request" /\ poll'.attempts = poll.attempts)]_vars
    /\ [][(poll.wait.present /\ poll.pc = "request" /\ poll'.pc = "check")
          => poll'.attempts = poll.attempts + 1]_vars
    /\ ((poll.pc = "request" /\ poll.wait.present /\ poll.service = "never")
            ~> poll.pc = "raised")

C10_Witness ==
    /\ poll.pc = "raised"
    /\ poll.wait.present
    /\ poll.wait.seconds >= 2
    /\ poll.attempts >= 2

\* C11: without a wait, get_response makes exactly one requests.get: its
\* response is returned, and its failure is followed at once by the
\* "No response from service" failure, with no second attempt.
C11_NoWaitSingleAttempt ==
    /\ [](~poll.wait.present =>
            /\ poll.attempts <= 1
            /\ poll.pc \in {"check", "returned", "raised"} => poll.attempts = 1
            /\ poll.pc = "returned" => (poll.got = "response" /\ poll.result = Response)
            /\ poll.pc = "raised" => (poll.got = "exception" /\ poll.result = FailMsg(NoWait)))
    /\ [][(~poll.wait.present /\ poll.pc = "check") => poll'.pc = "raised"]_vars
    /\ ((poll.pc = "request" /\ ~poll.wait.present) ~> poll.pc \in {"returned", "raised"})

C11_Witness ==
    /\ poll.pc = "raised"
    /\ ~poll.wait.present
    /\ poll.service = "flaky"
    /\ poll.attempts = 1

----------------------------------------------------------------------------
(* Properties of get_responses *)

\* the response get_response last returned for url among the calls in log
RECURSIVE LastResponse(_, _)
LastResponse(log, url) ==
    IF log = <<>> THEN NoResponse
    ELSE IF log[Len(log)].url = url THEN log[Len(log)].response
    ELSE LastResponse(SubSeq(log, 1, Len(log) - 1), url)

\* C14: get_responses calls get_response for its URLs in the order given, a
\* string with no wait (one attempt) and a tuple with its wait; the first
\* call that fails ends get_responses with that failure and nothing is
\* requested from the URLs after it; when every call returns, the result
\* maps each URL to the response captured for it.
C14_SequentialFailFast ==
    /\ [](LET urls == batch.urls_to_check
              log == batch.log
          IN  /\ Len(log) <= Len(urls)
              /\ \A k \in DOMAIN log :
                    /\ log[k].url = urls[k].url
                    /\ log[k].wait = WaitOf(urls[k])
                    /\ k < Len(log) => log[k].pc = "returned"
              /\ batch.pc \in {"loop", "calling"} => batch.i = Len(log) + 1
              /\ batch.pc = "calling" =>
                    /\ poll.url = urls[batch.i].url
                    /\ poll.wait = WaitOf(urls[batch.i])
                    /\ ~urls[batch.i].tuple => poll.attempts <= 1
              /\ batch.pc \in {"none", "loop", "returned", "raised"} => poll.pc = "none"
              /\ batch.pc = "raised" =>
                    /\ log # <<>>
                    /\ log[Len(log)].pc = "raised"
                    /\ batch.exc = FailMsg(WaitOf(urls[Len(log)]))
              /\ batch.pc = "returned" =>
                    /\ Len(log) = Len(urls)
                    /\ \A k \in DOMAIN log : log[k].pc = "returned"
                    /\ DOMAIN batch.responses = {urls[k].url : k \in DOMAIN urls}
                    /\ \A u \in DOMAIN batch.responses :
                          batch.responses[u] = LastResponse(log, u))
    /\ [][batch.pc = "raised" => (batch' = batch /\ poll' = poll)]_vars

C14_Witness ==
    /\ batch.pc = "raised"
    /\ Len(batch.log) = 1
    /\ Len(batch.urls_to_check) = 2
    /\ batch.urls_to_check[1].tuple
    /\ batch.log[1].wait.present

----------------------------------------------------------------------------
(* Properties of compare_redeployed_response *)

\* C12: the comparison returns exactly when both URLs answered, the original
\* with the expected status and the redeployed one with the original's status
\* and text; otherwise it raises for the first check that fails, in the order
\* original response, original status, redeployed response, redeployed status
\* (against the original's status), same text.
C12_FirstFailingCheck ==
    LET o == cmp.original_response
        r == cmp.redeployed_response
    IN  /\ cmp.pc = "returned" =>
               /\ o \in Responses /\ r \in Responses
               /\ o.status_code = cmp.status
               /\ r.status_code = o.status_code
               /\ r.text = o.text
        /\ cmp.pc = "raised" =>
               /\ cmp.failed \in {"original_response", "Original status",
                                  "redeployed_response", "Redeployed status",
                                  "Same response"}
               /\ cmp.failed = "original_response" =>
                      (o = NoResponse /\ r = NoResponse /\ cmp.exc = FailMsg(NoWait))
               /\ cmp.failed # "original_response" => o \in Responses
               /\ cmp.failed = "Original status" =>
                      (o.status_code # cmp.status /\ r = NoResponse
                       /\ cmp.exc = Mismatch("Original status"))
               /\ cmp.failed \notin {"original_response", "Original status"} =>
                      o.status_code = cmp.status
               /\ cmp.failed = "redeployed_response" =>
                      (r = NoResponse /\ cmp.exc = FailMsg(cmp.wait_for_target))
               /\ cmp.failed \in {"Redeployed status", "Same response"} => r \in Responses
               /\ cmp.failed = "Redeployed status" =>
                      (r.status_code # o.status_code
                       /\ cmp.exc = Mismatch("Redeployed status"))
               /\ cmp.failed = "Same response" =>
                      (r.status_code = o.status_code /\ r.text # o.text
                       /\ cmp.exc = Mismatch("Same response"))

C12_Witness ==
    /\ cmp.pc = "raised"
    /\ cmp.failed = "Same response"
    /\ cmp.redeployed_response.status_code = cmp.original_response.status_code
    /\ cmp.redeployed_response.text # cmp.original_response.text

\* C19: get_response is called for the redeployed URL, and a request sent
\* for it, only after the original URL has answered with the expected status;
\* a call that raised for the original's response or status fetched the
\* original URL only.
C19_RedeployedAfterOriginalOk ==
    LET original_url == Url(cmp.original_ip, cmp.tcp_port)
        redeployed_url == Url(cmp.redeployed_ip, cmp.tcp_port)
    IN  /\ cmp.pc # "none" =>
               /\ Len(cmp.fetched) \in {1, 2}
               /\ cmp.fetched[1] = original_url
               /\ Len(cmp.fetched) = 2 =>
                      /\ cmp.fetched[2] = redeployed_url
                      /\ cmp.original_response \in Responses
                      /\ cmp.original_response.status_code = cmp.status
               /\ cmp.failed \in {"original_response", "Original status"} =>
                      cmp.fetched = <<original_url>>
        /\ cmp.pc = "original" => (poll.url = original_url /\ Len(cmp.fetched) = 1)
        /\ cmp.pc = "redeployed" => (poll.url = redeployed_url /\ Len(cmp.fetched) = 2)
        /\ cmp.pc \in {"none", "returned", "raised"} => poll.pc = "none"

C19_Witness ==
    /\ cmp.pc = "raised"
    /\ cmp.failed = "Original status"
    /\ cmp.original_ip # cmp.redeployed_ip
    /\ cmp.fetched = <<Url(cmp.original_ip, cmp.tcp_port)>>

----------------------------------------------------------------------------
(* Properties of from_vm_list *)

HasHost(machines, host) == \E i \in DOMAIN machines : machines[i].hostname = host

\* the address is absent exactly when no record has the hostname, and is
\* otherwise the first address of a record with that hostname
AddressOf(machines, host, ip) ==
    /\ (ip = "None") <=> ~HasHost(machines, host)
    /\ ip # "None" =>
           \E i \in DOMAIN machines :
               /\ machines[i].hostname = host
               /\ machines[i].ip # <<>>
               /\ machines[i].ip[1] = ip

\* C13: from_vm_list returns, whatever the listing: the count is the number
\* of records, and the source and target addresses are as AddressOf says.
C13_FromVmList ==
    last.op = "from_vm_list" =>
        /\ last.result.exc = "ok"
        /\ last.result.local_vm_count = Len(last.machines)
        /\ AddressOf(last.machines, last.source_host, last.result.source_ip)
        /\ AddressOf(last.machines, last.target_host, last.result.target_ip)

DistinctHostnames(machines) ==
    \A i, j \in DOMAIN machines : machines[i].hostname = machines[j].hostname => i = j

\* C20: on a listing with pairwise distinct hostnames, from_vm_list gives
\* what the scan that never breaks gives.
C20_EarlyExitEquivalent ==
    (last.op = "from_vm_list" /\ DistinctHostnames(last.machines)) =>
        last.result = ScanVms(last.machines, 1, "None", "None", last.source_host,
                              last.target_host, "never")

C20_Witness ==
    /\ last.op = "from_vm_list"
    /\ DistinctHostnames(last.machines)
    /\ Len(last.machines) = 3
    /\ last.machines[1].hostname = last.source_host
    /\ last.machines[2].hostname = last.target_host
    /\ last.result.exc = "ok"
    /\ last.result.source_ip # last.result.target_ip

----------------------------------------------------------------------------
(* Properties of _run_command *)

\* C17: _run_command executes the command once; on exit status zero it
\* returns the stdout, on a non-zero status it returns the stdout when
\* ignore_errors is true and raises CalledProcessError when it is false.
C17_RunCommand ==
    last.op = "_run_command" =>
        LET first == last.runs[1]
            r == last.result
        IN  /\ r.spawned = 1
            /\ first.rc = 0 => (r.exc = "ok" /\ r.output = first.stdout)
            /\ (first.rc # 0 /\ last.ignore_errors) =>
                   (r.exc = "ok" /\ r.output = first.stdout)
            /\ (first.rc # 0 /\ ~last.ignore_errors) => r.exc = "CalledProcessError"

C17_Witness ==
    /\ last.op = "_run_command"
    /\ last.runs[1].rc # 0
    /\ last.runs[2].rc = 0
    /\ last.runs[1].stdout # last.runs[2].stdout
    /\ last.ignore_errors
    /\ last.result.output = last.runs[1].stdout

----------------------------------------------------------------------------
(* Properties of redeploy_as_macrocontainer *)

\* C15: redeploy_as_macrocontainer runs nothing when one of the two names is
\* unknown; otherwise it runs migrate-machine (target after -t, then the
\* source) and, only when that exits with zero, list-machines; a non-zero
\* exit of migrate-machine always fails the call; and a MigrationInfo comes
\* back only after both commands exited with zero and the listing was parsed.
C15_Redeploy ==
    last.op = "redeploy_as_macrocontainer" =>
        LET h == helpers[vm_helper]
            s == get_hostname(h, last.source_vm)
            t == get_hostname(h, last.target_vm)
            migrate == LeappCmd("migrate-machine", <<"-t", t.ret, s.ret>>)
            list == LeappCmd("list-machines", <<"--shallow">>)
        IN  /\ (s.exc # "ok" \/ t.exc # "ok") =>
                   (last.ran = <<>> /\ last.exc = "KeyError" /\ last.info = NoInfo)
            /\ (s.exc = "ok" /\ t.exc = "ok") =>
                   /\ last.ran \in {<<migrate>>, <<migrate, list>>}
                   /\ last.rcMigrate # 0 =>
                          (last.exc = "CalledProcessError" /\ last.ran = <<migrate>>
                           /\ last.info = NoInfo)
                   /\ last.rcMigrate = 0 => last.ran = <<migrate, list>>
            /\ (last.exc = "ok") <=> (last.info # NoInfo)
            /\ last.info # NoInfo =>
                   /\ s.exc = "ok" /\ t.exc = "ok"
                   /\ last.rcMigrate = 0 /\ last.rcList = 0
                   /\ json_loads_machines(last.stdout).exc = "ok"
                   /\ last.ran = <<migrate, list>>
                   /\ last.info.local_vm_count = Len(last.stdout.machines)

C15_Witness ==
    /\ last.op = "redeploy_as_macrocontainer"
    /\ last.source_vm # last.target_vm
    /\ last.rcMigrate # 0
    /\ Len(last.ran) = 1

----------------------------------------------------------------------------
(* Properties of the scenario helpers *)

\* C16: before_scenario gives the scenario a new, empty helper and an empty
\* scenario stack, leaving the earlier helpers as they are, so no name of an
\* earlier scenario resolves in it; and ensure_local_vm, get_hostname, close
\* and after_scenario change no helper but the current scenario's.
C16_ScenarioIsolation ==
    /\ [](last.op = "before_scenario" =>
            /\ helpers[vm_helper] = NewHelper
            /\ scenario_cleanup = <<>>
            /\ \A n \in Names : get_hostname(helpers[vm_helper], n).exc = "KeyError")
    /\ [][/\ last'.op = "before_scenario" =>
                 (vm_helper' = Len(helpers) + 1
                  /\ \A i \in DOMAIN helpers : helpers'[i] = helpers[i])
          /\ last'.op \in {"ensure_local_vm", "get_hostname", "close", "after_scenario"} =>
                 (vm_helper' = vm_helper
                  /\ \A i \in DOMAIN helpers : i # vm_helper => helpers'[i] = helpers[i])]_vars

C16_Witness ==
    /\ vm_helper = 2
    /\ last.op = "get_hostname"
    /\ last.exc = "KeyError"
    /\ last.name \in DOMAIN helpers[1].machines
    /\ helpers[1].resource_manager # <<>>
    /\ helpers[2].resource_manager # <<>>

\* C18: ensure_local_vm with a definition that is not in vmdefs raises
\* ValueError, runs no vagrant command and leaves the helpers and the VMs
\* as they were.
C18_UnknownDefinition ==
    [][(last'.op = "ensure_local_vm"
        /\ last'.hostname \notin {Hostname(d) : d \in VmDefDirs})
       => /\ last'.exc = "ValueError"
          /\ last'.ran = <<>>
          /\ helpers' = helpers
          /\ vmUp' = vmUp
          /\ ghost' = ghost]_vars

C18_Witness ==
    /\ last.op = "ensure_local_vm"
    /\ last.hostname = Hostname("zz")
    /\ last.destroy
    /\ last.exc = "ValueError"
    /\ helpers[vm_helper].resource_manager # <<>>
    /\ vmUp # {}

====
